---- MODULE Spec2Model ----
(***************************************************************************)
(* The two notebooks of the repository as state machines.                  *)
(*                                                                         *)
(*   langsmith : the test-suite loop that calls                            *)
(*               run_test_with_observability, which invokes the compiled   *)
(*               LangGraph workflow decide -> search -> respond -> END.    *)
(*   anchor    : the browser-automation notebook: the session-creation     *)
(*               cell followed by the form-completion cell.                *)
(*                                                                         *)
(* The LLM, Wikipedia, the Anchor API and the remote browser are the       *)
(* environment: each call returns one of a small set of answers or raises. *)
(* Wall-clock time (total_time, time.sleep) and printing are left out.     *)
(*                                                                         *)
(* Text is a sequence of tokens.  A token is an indivisible piece of text, *)
(* so two texts are equal exactly when their token sequences are equal,    *)
(* and "contains the substring Search error" is "contains the token        *)
(* Search error".  The whitespace tokens are " " and "\n".                 *)
(***************************************************************************)
EXTENDS Integers, Sequences, FiniteSets, TLC

VARIABLES
    notebook,      \* which notebook this execution runs
    pc,            \* position of the (single) thread of control
    test_idx,      \* index of the for loop over test_cases (1-based)
    state,         \* the AgentState record flowing through the workflow
    events,        \* what the current run has done so far, in order
    inflight,      \* blocking/awaited operations that have not returned yet
    page_title,    \* wikipedia_search's local: title of the top search result
    error,         \* the exception propagating out of the workflow, as text
    test_results,  \* the list the test loop appends to
    decide_texts,  \* per finished run: what the decide LLM call answered
    anchor         \* variables of the browser-automation notebook

vars == <<notebook, pc, test_idx, state, events, inflight, page_title, error,
          test_results, decide_texts, anchor>>

-----------------------------------------------------------------------------
(* Bounds of the model *)

\* longest LLM answer (in tokens) the decide parser is exercised on
MaxOut == 4

-----------------------------------------------------------------------------
(* Text helpers: str.strip(), str.split('\n'), `in`, slicing, replace *)

Whitespace == {" ", "\n"}

RECURSIVE lstrip(_)
lstrip(s) ==
    IF s # <<>> /\ Head(s) \in Whitespace THEN lstrip(Tail(s)) ELSE s

RECURSIVE rstrip(_)
rstrip(s) ==
    IF s # <<>> /\ s[Len(s)] \in Whitespace
    THEN rstrip(SubSeq(s, 1, Len(s) - 1))
    ELSE s

strip(s) == rstrip(lstrip(s))

\* s.split('\n'): always at least one piece; pieces may be empty
RECURSIVE split(_)
split(s) ==
    IF \E i \in 1..Len(s) : s[i] = "\n"
    THEN LET i == CHOOSE k \in 1..Len(s) :
                     s[k] = "\n" /\ \A j \in 1..(k - 1) : s[j] # "\n"
         IN  <<SubSeq(s, 1, i - 1)>> \o split(SubSeq(s, i + 1, Len(s)))
    ELSE <<s>>

\* tok in s
Contains(s, tok) == \E i \in 1..Len(s) : s[i] = tok

\* s[:n]
Take(s, n) == SubSeq(s, 1, IF Len(s) < n THEN Len(s) ELSE n)

\* s.replace(' ', '_')
replace_spaces(s) == [i \in 1..Len(s) |-> IF s[i] = " " THEN "_" ELSE s[i]]

\* all token sequences over S of length at most n
SeqsUpTo(S, n) == UNION {[1..k -> S] : k \in 0..n}

-----------------------------------------------------------------------------
(* The record of what a run did.  kind says what happened, op names the    *)
(* node, request or awaited call, arg carries its text.                    *)

Ev(kind, op, arg) == [kind |-> kind, op |-> op, arg |-> arg]

EventsOf(kind) == SelectSeq(events, LAMBDA e : e.kind = kind)

Count(kind) == Len(EventsOf(kind))

-----------------------------------------------------------------------------
(* langsmith notebook: data *)

test_cases ==
    << [question |-> <<"What is the capital of France?">>,
        type |-> "direct_answer", expected_search |-> FALSE],
       [question |-> <<"What happened in the 2024 US presidential election?">>,
        type |-> "current_info", expected_search |-> TRUE],
       [question |-> <<"Tell me about artificial intelligence">>,
        type |-> "factual_lookup", expected_search |-> FALSE] >>

\* the value of `state` before any run has built one
NoState ==
    [user_question |-> <<>>, needs_search |-> FALSE, search_result |-> <<>>,
     final_answer |-> <<>>, reasoning |-> <<>>]

\* faulty variant: the record of the previous run is reused
initial_state_stale(question) == [state EXCEPT !.user_question = question]

initial_state(question) ==
    [user_question |-> question, needs_search |-> FALSE, search_result |-> <<>>,
     final_answer |-> <<>>, reasoning |-> <<>>]

\* the workflow graph: set_entry_point and the three add_edge calls
entry_point == "decide"

\* faulty variant: a conditional edge that bypasses the search node
edges_conditional ==
    [decide |-> IF state.needs_search THEN "search" ELSE "respond",
     search |-> "respond", respond |-> "END"]

\* faulty variant: the respond node leads back to the decide node
edges_cyclic == [decide |-> "search", search |-> "respond", respond |-> "decide"]

edges == [decide |-> "search", search |-> "respond", respond |-> "END"]

\* what the LLM may answer to the decision prompt in the test-suite runs
DecisionTexts ==
    { <<>>,
      <<"SEARCH">>,
      <<"SEARCH", "\n", "needs current data">>,
      <<" ", "SEARCH", " ", "\n", "needs current data", "\n">>,
      <<"SEARCH", "\n", "\n", "needs current data">>,
      <<"search">>,
      <<"SEARCH", ".">>,
      <<"DIRECT", "\n", "well known">>,
      <<"I", " ", "think", " ", "SEARCH">> }

\* every answer of at most MaxOut tokens over a small alphabet
Tokens == {"SEARCH", "search", ".", " ", "\n"}
AllTexts == SeqsUpTo(Tokens, MaxOut)

\* what the LLM may answer to the response prompt
Answers == { <<"Paris.">>, <<>> }

\* str(e) of what llm.invoke may raise
LLMErrors == { <<"APIConnectionError">> }

-----------------------------------------------------------------------------
(* decide_search_need *)

decision_prompt(user_question) ==
    <<"Analyze this question ... Question: ">> \o user_question
        \o <<"Respond with exactly SEARCH ... or DIRECT ... explain your reasoning.">>

decision_text(content) == strip(content)

lines(content) == split(decision_text(content))

decision(content) == strip(lines(content)[1])

\* faulty variant: blank lines are skipped when looking for the explanation
reasoning_skip_blank(content) ==
    LET rest == SelectSeq(Tail(lines(content)), LAMBDA l : strip(l) # <<>>)
    IN  IF rest # <<>> THEN rest[1] ELSE <<"No reasoning provided">>

reasoning(content) ==
    IF Len(lines(content)) > 1
    THEN lines(content)[2]
    ELSE <<"No reasoning provided">>

\* faulty variant: `"SEARCH" in decision` instead of equality
is_search_contains(d) == Contains(d, "SEARCH")

is_search(d) == d = <<"SEARCH">>

\* faulty variant: the node also resets the fields of the later nodes
decide_search_need_resets(st, content) ==
    [st EXCEPT
        !.needs_search = is_search(decision(content)),
        !.reasoning = <<"Decision: ">> \o decision(content)
                         \o <<". Reasoning: ">> \o reasoning(content),
        !.search_result = <<"No search performed">>,
        !.final_answer = <<>>]

decide_search_need(st, content) ==
    [st EXCEPT
        !.needs_search = is_search(decision(content)),
        !.reasoning = <<"Decision: ">> \o decision(content)
                         \o <<". Reasoning: ">> \o reasoning(content)]

-----------------------------------------------------------------------------
(* wikipedia_search: the two GETs and the five ways it returns *)

HTTP_OK == 200

\* str(e) of what requests.get may raise
HttpErrors == { <<"Read timed out">> }

\* str(e) of what response.json() raises on a malformed body
JsonError == <<"Expecting value">>

\* str(KeyError('title'))
TitleKeyError == <<"'title'">>

Titles == { <<"Paris">>, <<"United", " ", "States">> }

Hit(t) == [has_title |-> TRUE, title |-> t]

\* a search hit whose JSON object lacks the 'title' key
HitNoTitle == [has_title |-> FALSE, title |-> <<>>]

\* data['query']['search'] of the search answer
ResultLists ==
    { <<>>, <<HitNoTitle>>,
      <<Hit(<<"Paris">>)>>,
      <<Hit(<<"United", " ", "States">>), Hit(<<"Paris">>)>> }

SearchResponses ==
    { [raised |-> TRUE, error |-> e, status |-> 0, json_ok |-> FALSE,
       results |-> <<>>] : e \in HttpErrors }
    \cup { [raised |-> FALSE, error |-> <<>>, status |-> 503, json_ok |-> FALSE,
            results |-> <<>>],
           [raised |-> FALSE, error |-> <<>>, status |-> HTTP_OK, json_ok |-> FALSE,
            results |-> <<>>] }
    \cup { [raised |-> FALSE, error |-> <<>>, status |-> HTTP_OK, json_ok |-> TRUE,
            results |-> l] : l \in ResultLists }

\* summary_data['extract'], when the key is there
Extracts == { <<"Paris is the capital of France.">>,
              <<"A ", "Search error", " is shown when a query fails.">> }

SummaryResponses ==
    { [raised |-> TRUE, error |-> e, status |-> 0, json_ok |-> FALSE,
       has_extract |-> FALSE, extract |-> <<>>] : e \in HttpErrors }
    \cup { [raised |-> FALSE, error |-> <<>>, status |-> 404, json_ok |-> FALSE,
            has_extract |-> FALSE, extract |-> <<>>],
           [raised |-> FALSE, error |-> <<>>, status |-> HTTP_OK, json_ok |-> FALSE,
            has_extract |-> FALSE, extract |-> <<>>],
           [raised |-> FALSE, error |-> <<>>, status |-> HTTP_OK, json_ok |-> TRUE,
            has_extract |-> FALSE, extract |-> <<>>] }
    \cup { [raised |-> FALSE, error |-> <<>>, status |-> HTTP_OK, json_ok |-> TRUE,
            has_extract |-> TRUE, extract |-> x] : x \in Extracts }

\* extract[:400], counted in tokens
ExtractLimit == 400

\* faulty variant: the except branch returns str(e) without the prefix
search_error_raw(e) == e

\* the except branch: f"Search error: {str(e)}"
search_error(e) == <<"Search error", ": ">> \o e

summary_url(title) ==
    <<"https://en.wikipedia.org/api/rest_v1/page/summary/">> \o replace_spaces(title)

\* faulty variant: the title is taken from the last result, not the first
after_search_200_last(query, r) ==
    IF ~r.json_ok
    THEN [done |-> TRUE, result |-> search_error(JsonError), title |-> <<>>]
    ELSE IF r.results = <<>>
    THEN [done |-> TRUE, title |-> <<>>,
          result |-> <<"No Wikipedia articles found for '">> \o query \o <<"'">>]
    ELSE IF ~r.results[Len(r.results)].has_title
    THEN [done |-> TRUE, result |-> search_error(TitleKeyError), title |-> <<>>]
    ELSE [done |-> FALSE, result |-> <<>>, title |-> r.results[Len(r.results)].title]

\* the branch of wikipedia_search under `if response.status_code == 200`
after_search_200(query, r) ==
    IF ~r.json_ok
    THEN [done |-> TRUE, result |-> search_error(JsonError), title |-> <<>>]
    ELSE IF r.results = <<>>
    THEN [done |-> TRUE, title |-> <<>>,
          result |-> <<"No Wikipedia articles found for '">> \o query \o <<"'">>]
    ELSE IF ~r.results[1].has_title
    THEN [done |-> TRUE, result |-> search_error(TitleKeyError), title |-> <<>>]
    ELSE [done |-> FALSE, result |-> <<>>, title |-> r.results[1].title]

search_failed(r) ==
    [done |-> TRUE, title |-> <<>>,
     result |-> <<"Wikipedia search failed with status ", ToString(r.status)>>]

\* faulty variant: the summary is never requested
after_search_no_summary(query, r) ==
    IF r.raised
    THEN [done |-> TRUE, result |-> search_error(r.error), title |-> <<>>]
    ELSE IF r.status # HTTP_OK
    THEN search_failed(r)
    ELSE LET o == after_search_200(query, r)
         IN  IF o.done THEN o
             ELSE [done |-> TRUE, title |-> <<>>,
                   result |-> <<"Found '">> \o o.title \o <<"'">>]

\* faulty variant: a failed search falls back to a summary request
after_search_fallback(query, r) ==
    IF r.raised
    THEN [done |-> TRUE, result |-> search_error(r.error), title |-> <<>>]
    ELSE IF r.status # HTTP_OK
    THEN [done |-> FALSE, result |-> <<>>, title |-> query]
    ELSE after_search_200(query, r)

\* wikipedia_search from the answer to the search GET on: either the tool
\* returns (done) or it goes on to request the summary of page_title
after_search(query, r) ==
    IF r.raised
    THEN [done |-> TRUE, result |-> search_error(r.error), title |-> <<>>]
    ELSE IF r.status # HTTP_OK
    THEN search_failed(r)
    ELSE after_search_200(query, r)

\* faulty variant: a summary answer that cannot be used yields an empty string
after_summary_empty(title, r) ==
    IF r.raised
    THEN search_error(r.error)
    ELSE IF r.status # HTTP_OK \/ ~r.json_ok
    THEN <<>>
    ELSE <<"Found information about '">> \o title \o <<"': ">>
            \o Take(IF r.has_extract THEN r.extract ELSE <<"No summary available">>,
                    ExtractLimit)
            \o <<"...">>

\* wikipedia_search from the answer to the summary GET on
after_summary(title, r) ==
    IF r.raised
    THEN search_error(r.error)
    ELSE IF r.status # HTTP_OK
    THEN <<"Found '">> \o title \o <<"' but couldn't retrieve summary">>
    ELSE IF ~r.json_ok
    THEN search_error(JsonError)
    ELSE <<"Found information about '">> \o title \o <<"': ">>
            \o Take(IF r.has_extract THEN r.extract ELSE <<"No summary available">>,
                    ExtractLimit)
            \o <<"...">>

-----------------------------------------------------------------------------
(* execute_search: the test `if not state["needs_search"]` *)

\* faulty variant: the search tool is run whatever was decided
should_search_always(st) == TRUE

should_search(st) == st.needs_search

-----------------------------------------------------------------------------
(* generate_response *)

\* faulty variant: the error string is not filtered out
uses_search_results_always(st) == st.needs_search

uses_search_results(st) ==
    st.needs_search /\ ~Contains(st.search_result, "Search error")

response_prompt(st) ==
    IF uses_search_results(st)
    THEN <<"Answer the user's question using both your knowledge and the search results provided.",
           "Question: ">> \o st.user_question
            \o <<"\n\nSearch Results: ">> \o st.search_result
            \o <<"Provide a helpful, accurate response that synthesizes the information.">>
    ELSE <<"Answer this question using your existing knowledge:">>
            \o st.user_question
            \o <<"Provide a helpful, accurate response.">>

-----------------------------------------------------------------------------
(* langsmith notebook: the test loop, run_test_with_observability and the  *)
(* compiled workflow simple_agent                                          *)

Log(evs) == events' = events \o evs

\* for ... in enumerate(test_cases, 1): run_test_with_observability builds
\* initial_state and calls simple_agent.invoke, which enters the graph
RunTest ==
    /\ notebook = "langsmith"
    /\ pc = "loop"
    /\ test_idx <= Len(test_cases)
    /\ state' = initial_state(test_cases[test_idx].question)
    /\ events' = <<>>
    /\ pc' = entry_point
    /\ UNCHANGED <<notebook, test_idx, inflight, page_title, error,
                   test_results, decide_texts, anchor>>

\* faulty variant: a failing LLM call is swallowed and the graph goes on
on_llm_error_continue(node) == edges[node]

\* llm.invoke raising in a node: neither the node nor the graph catches it,
\* so it leaves simple_agent.invoke
on_llm_error(node) == "raised"

\* node decide, up to the blocking llm.invoke
DecideCall ==
    /\ pc = "decide"
    /\ Log(<<Ev("node", "decide", <<>>),
             Ev("llm_call", "decide", decision_prompt(state.user_question))>>)
    /\ inflight' = inflight \cup {"llm"}
    /\ pc' = "decide_llm"
    /\ UNCHANGED <<notebook, test_idx, state, page_title, error,
                   test_results, decide_texts, anchor>>

\* llm.invoke returns: parse the answer, update the state, follow the edge
DecideReturn(texts) ==
    /\ pc = "decide_llm"
    /\ \E content \in texts :
        /\ state' = decide_search_need(state, content)
        /\ Log(<<Ev("llm_return", "decide", content)>>)
    /\ inflight' = inflight \ {"llm"}
    /\ pc' = edges.decide
    /\ UNCHANGED <<notebook, test_idx, page_title, error,
                   test_results, decide_texts, anchor>>

\* llm.invoke raises: nothing in the node or the graph catches it
DecideRaise ==
    /\ pc = "decide_llm"
    /\ \E e \in LLMErrors :
        /\ error' = e
        /\ Log(<<Ev("llm_raise", "decide", e)>>)
    /\ inflight' = inflight \ {"llm"}
    /\ pc' = on_llm_error("decide")
    /\ UNCHANGED <<notebook, test_idx, state, page_title,
                   test_results, decide_texts, anchor>>

\* node search, early return when no search is needed
SearchSkip ==
    /\ pc = "search"
    /\ ~should_search(state)
    /\ state' = [state EXCEPT !.search_result = <<"No search performed">>]
    /\ Log(<<Ev("node", "search", <<>>)>>)
    /\ pc' = edges.search
    /\ UNCHANGED <<notebook, test_idx, inflight, page_title, error,
                   test_results, decide_texts, anchor>>

\* node search, up to the first blocking requests.get of wikipedia_search
SearchInvoke ==
    /\ pc = "search"
    /\ should_search(state)
    /\ Log(<<Ev("node", "search", <<>>),
             Ev("tool_call", "wikipedia_search", state.user_question),
             Ev("http_get", "search", state.user_question)>>)
    /\ inflight' = inflight \cup {"GET search"}
    /\ pc' = "search_get"
    /\ UNCHANGED <<notebook, test_idx, state, page_title, error,
                   test_results, decide_texts, anchor>>

\* the search GET returns or raises: the tool either returns its string
\* (stored by execute_search) or issues the summary GET
SearchGetReturn ==
    /\ pc = "search_get"
    /\ \E r \in SearchResponses :
        LET o == after_search(state.user_question, r) IN
        IF o.done
        THEN /\ state' = [state EXCEPT !.search_result = o.result]
             /\ Log(<<Ev("http_return", "search", r),
                      Ev("tool_return", "wikipedia_search", o.result)>>)
             /\ inflight' = inflight \ {"GET search"}
             /\ pc' = edges.search
             /\ UNCHANGED page_title
        ELSE /\ page_title' = o.title
             /\ Log(<<Ev("http_return", "search", r),
                      Ev("http_get", "summary", summary_url(o.title))>>)
             /\ inflight' = (inflight \ {"GET search"}) \cup {"GET summary"}
             /\ pc' = "summary_get"
             /\ UNCHANGED state
    /\ UNCHANGED <<notebook, test_idx, error, test_results, decide_texts, anchor>>

\* the summary GET returns or raises: the tool returns its string
SummaryGetReturn ==
    /\ pc = "summary_get"
    /\ \E r \in SummaryResponses :
        LET result == after_summary(page_title, r) IN
        /\ state' = [state EXCEPT !.search_result = result]
        /\ Log(<<Ev("http_return", "summary", r),
                 Ev("tool_return", "wikipedia_search", result)>>)
    /\ inflight' = inflight \ {"GET summary"}
    /\ page_title' = <<>>
    /\ pc' = edges.search
    /\ UNCHANGED <<notebook, test_idx, error, test_results, decide_texts, anchor>>

\* node respond, up to the blocking llm.invoke
RespondCall ==
    /\ pc = "respond"
    /\ Log(<<Ev("node", "respond", <<>>),
             Ev("llm_call", "respond", response_prompt(state))>>)
    /\ inflight' = inflight \cup {"llm"}
    /\ pc' = "respond_llm"
    /\ UNCHANGED <<notebook, test_idx, state, page_title, error,
                   test_results, decide_texts, anchor>>

RespondReturn ==
    /\ pc = "respond_llm"
    /\ \E content \in Answers :
        /\ state' = [state EXCEPT !.final_answer = content]
        /\ Log(<<Ev("llm_return", "respond", content)>>)
    /\ inflight' = inflight \ {"llm"}
    /\ pc' = edges.respond
    /\ UNCHANGED <<notebook, test_idx, page_title, error,
                   test_results, decide_texts, anchor>>

RespondRaise ==
    /\ pc = "respond_llm"
    /\ \E e \in LLMErrors :
        /\ error' = e
        /\ Log(<<Ev("llm_raise", "respond", e)>>)
    /\ inflight' = inflight \ {"llm"}
    /\ pc' = on_llm_error("respond")
    /\ UNCHANGED <<notebook, test_idx, state, page_title,
                   test_results, decide_texts, anchor>>

\* what the decide LLM call of the current run answered
DecideAnswer ==
    LET r == SelectSeq(events, LAMBDA e : e.kind = "llm_return" /\ e.op = "decide")
    IN  IF r = <<>> THEN <<"<raised>">> ELSE r[1].arg

\* faulty variant: success reports whether the decision was the expected one
success_record_expected(test_case, final_state) ==
    [question |-> test_case.question,
     type |-> test_case.type,
     success |-> (final_state.needs_search = test_case.expected_search),
     used_search |-> final_state.needs_search,
     reasoning |-> final_state.reasoning]

\* the dict returned after simple_agent.invoke returned final_state
success_record(test_case, final_state) ==
    [question |-> test_case.question,
     type |-> test_case.type,
     success |-> TRUE,
     used_search |-> final_state.needs_search,
     reasoning |-> final_state.reasoning]

\* faulty variant: the failure record does not say which test it belongs to
failure_record_bare(test_case, e) ==
    [question |-> <<>>, type |-> "", success |-> FALSE, error |-> e]

\* the dict returned by the except branch
failure_record(test_case, e) ==
    [question |-> test_case.question,
     type |-> test_case.type,
     success |-> FALSE,
     error |-> e]

\* invoke returned final_state: the success record is appended, next test
ReturnSuccess ==
    /\ pc = "END"
    /\ test_results' = Append(test_results,
                              success_record(test_cases[test_idx], state))
    /\ decide_texts' = Append(decide_texts, DecideAnswer)
    /\ test_idx' = test_idx + 1
    /\ pc' = "loop"
    /\ UNCHANGED <<notebook, state, events, inflight, page_title, error, anchor>>

\* invoke raised: the except branch builds the failure record, next test
ReturnFailure ==
    /\ pc = "raised"
    /\ test_results' = Append(test_results,
                              failure_record(test_cases[test_idx], error))
    /\ decide_texts' = Append(decide_texts, DecideAnswer)
    /\ test_idx' = test_idx + 1
    /\ error' = <<>>
    /\ pc' = "loop"
    /\ UNCHANGED <<notebook, state, events, inflight, page_title, anchor>>

\* the loop is exhausted: the closing prints
Finish ==
    /\ notebook = "langsmith"
    /\ pc = "loop"
    /\ test_idx > Len(test_cases)
    /\ pc' = "finished"
    /\ UNCHANGED <<notebook, test_idx, state, events, inflight, page_title,
                   error, test_results, decide_texts, anchor>>

-----------------------------------------------------------------------------
(* anchor notebook: the session-creation cell and the form-completion cell *)

ai_agent_url == "chrome-extension://bppehibnhionalpjigdjdilknbljaeai/background.js"

other_worker_url == "chrome-extension://other/background.js"

resume_url == <<"https://www.wix.com/demone2/nicol-rider">>

task_configuration == <<"{prompt: Read the resume on this page ... Limit the donation amount to $10., provider: openai, model: gpt-4, highlight_elements: true}">>

\* what the session-creation POST may bring: an exception, a body that is
\* not JSON, JSON without data.cdp_url / data.id, or the session
PostResponses ==
    { [raised |-> TRUE,  json_ok |-> FALSE, has_data |-> FALSE],
      [raised |-> FALSE, json_ok |-> FALSE, has_data |-> FALSE],
      [raised |-> FALSE, json_ok |-> TRUE,  has_data |-> FALSE],
      [raised |-> FALSE, json_ok |-> TRUE,  has_data |-> TRUE] }

\* what connect_over_cdp may bring: an exception, or a browser with its
\* contexts, the first context's service workers and pages
ConnectOutcomes ==
    { [raised |-> TRUE, contexts |-> 0, service_workers |-> {}, pages |-> 0] }
    \cup { [raised |-> FALSE, contexts |-> 0, service_workers |-> {}, pages |-> 0] }
    \cup { [raised |-> FALSE, contexts |-> 1, service_workers |-> w, pages |-> p] :
              w \in SUBSET {ai_agent_url, other_worker_url}, p \in {0, 1} }

NoAnchor ==
    [connection_string |-> "", session_id |-> "", contexts |-> 0,
     service_workers |-> {}, pages |-> 0, ai_agent |-> FALSE, page |-> FALSE,
     result |-> ""]

\* faulty variant: the task is evaluated before the navigation
form_completion_reordered ==
    <<"connect", "locate", "get_page", "evaluate", "goto", "nb_done">>

\* the statements of the form-completion cell, in program order
form_completion_order ==
    <<"connect", "locate", "get_page", "goto", "evaluate", "nb_done">>

step_after(s) ==
    LET i == CHOOSE k \in 1..Len(form_completion_order) :
                 form_completion_order[k] = s
    IN  form_completion_order[i + 1]

\* faulty variant: page.goto is started and not awaited
goto_not_awaited(waiting, next) == IF waiting = "await_goto" THEN next ELSE waiting

\* `await op`: control stays at the await until op has returned
await_pc(waiting, next) == waiting

\* faulty variant: the cell ends the session it created
session_teardown_delete ==
    <<Ev("http_delete", "sessions", <<anchor.session_id>>)>>

\* the session requests the form-completion cell makes once the task has
\* returned or raised: none, the cell only prints
session_teardown == <<>>

\* requests.post(url, json=payload, headers=headers)
CreateSession ==
    /\ notebook = "anchor"
    /\ pc = "cell1"
    /\ Log(<<Ev("http_post", "sessions", <<"https://api.anchorbrowser.io/v1/sessions">>)>>)
    /\ inflight' = inflight \cup {"POST sessions"}
    /\ pc' = "post_wait"
    /\ UNCHANGED <<notebook, test_idx, state, page_title, error,
                   test_results, decide_texts, anchor>>

\* the POST returns: response.json(), then session_data['data'][...]
PostReturn ==
    /\ pc = "post_wait"
    /\ \E r \in PostResponses :
        /\ Log(<<Ev("http_return", "sessions", r)>>)
        /\ IF r.raised \/ ~r.json_ok \/ ~r.has_data
           THEN /\ error' = IF r.raised THEN <<"ConnectionError">>
                            ELSE IF ~r.json_ok THEN JsonError ELSE <<"'data'">>
                /\ pc' = "nb_raised"
                /\ UNCHANGED anchor
           ELSE /\ anchor' = [anchor EXCEPT !.connection_string = "wss://cdp",
                                            !.session_id = "session-1"]
                /\ pc' = form_completion_order[1]
                /\ UNCHANGED error
    /\ inflight' = inflight \ {"POST sessions"}
    /\ UNCHANGED <<notebook, test_idx, state, page_title,
                   test_results, decide_texts>>

\* await playwright.chromium.connect_over_cdp(connection_string)
ConnectStart ==
    /\ pc = "connect"
    /\ Log(<<Ev("start", "connect", <<anchor.connection_string>>)>>)
    /\ inflight' = inflight \cup {"connect"}
    /\ pc' = await_pc("await_connect", step_after("connect"))
    /\ UNCHANGED <<notebook, test_idx, state, page_title, error,
                   test_results, decide_texts, anchor>>

ConnectReturn ==
    /\ pc = "await_connect"
    /\ \E o \in ConnectOutcomes :
        IF o.raised
        THEN /\ Log(<<Ev("raise", "connect", <<>>)>>)
             /\ error' = <<"connect_over_cdp failed">>
             /\ pc' = "nb_raised"
             /\ UNCHANGED anchor
        ELSE /\ Log(<<Ev("return", "connect", <<>>)>>)
             /\ anchor' = [anchor EXCEPT !.contexts = o.contexts,
                                         !.service_workers = o.service_workers,
                                         !.pages = o.pages]
             /\ pc' = step_after("connect")
             /\ UNCHANGED error
    /\ inflight' = inflight \ {"connect"}
    /\ UNCHANGED <<notebook, test_idx, state, page_title,
                   test_results, decide_texts>>

\* faulty variant: the first service worker is taken whatever its url
agent_found_any(workers) == workers # {}

\* next((sw for sw in context.service_workers if sw.url == ai_agent_url), None)
\* gave a worker
agent_found(workers) == ai_agent_url \in workers

\* context = browser.contexts[0]; ai_agent = next(...); raise if not found
Locate ==
    /\ pc = "locate"
    /\ IF anchor.contexts = 0
       THEN /\ error' = <<"list index out of range">>
            /\ pc' = "nb_raised"
            /\ UNCHANGED <<anchor, events>>
       ELSE IF ~agent_found(anchor.service_workers)
       THEN /\ error' = <<"AI agent not found in browser context">>
            /\ pc' = "nb_raised"
            /\ UNCHANGED <<anchor, events>>
       ELSE /\ anchor' = [anchor EXCEPT !.ai_agent = TRUE]
            /\ Log(<<Ev("locate", "ai_agent", <<ai_agent_url>>)>>)
            /\ pc' = step_after("locate")
            /\ UNCHANGED error
    /\ UNCHANGED <<notebook, test_idx, state, inflight, page_title,
                   test_results, decide_texts>>

\* page = context.pages[0] if context.pages else await context.new_page()
GetPage ==
    /\ pc = "get_page"
    /\ IF anchor.pages > 0
       THEN /\ anchor' = [anchor EXCEPT !.page = TRUE]
            /\ pc' = step_after("get_page")
            /\ UNCHANGED <<events, inflight>>
       ELSE /\ Log(<<Ev("start", "new_page", <<>>)>>)
            /\ inflight' = inflight \cup {"new_page"}
            /\ pc' = await_pc("await_new_page", step_after("get_page"))
            /\ UNCHANGED anchor
    /\ UNCHANGED <<notebook, test_idx, state, page_title, error,
                   test_results, decide_texts>>

NewPageReturn ==
    /\ pc = "await_new_page"
    /\ \E ok \in BOOLEAN :
        IF ok
        THEN /\ Log(<<Ev("return", "new_page", <<>>)>>)
             /\ anchor' = [anchor EXCEPT !.page = TRUE, !.pages = 1]
             /\ pc' = step_after("get_page")
             /\ UNCHANGED error
        ELSE /\ Log(<<Ev("raise", "new_page", <<>>)>>)
             /\ error' = <<"Target closed">>
             /\ pc' = "nb_raised"
             /\ UNCHANGED anchor
    /\ inflight' = inflight \ {"new_page"}
    /\ UNCHANGED <<notebook, test_idx, state, page_title,
                   test_results, decide_texts>>

\* await page.goto(resume_url)
GotoStart ==
    /\ pc = "goto"
    /\ Log(<<Ev("start", "goto", resume_url)>>)
    /\ inflight' = inflight \cup {"goto"}
    /\ pc' = await_pc("await_goto", step_after("goto"))
    /\ UNCHANGED <<notebook, test_idx, state, page_title, error,
                   test_results, decide_texts, anchor>>

GotoReturn ==
    /\ pc = "await_goto"
    /\ \E ok \in BOOLEAN :
        IF ok
        THEN /\ Log(<<Ev("return", "goto", resume_url)>>)
             /\ pc' = step_after("goto")
             /\ UNCHANGED error
        ELSE /\ Log(<<Ev("raise", "goto", resume_url)>>)
             /\ error' = <<"Timeout 30000ms exceeded">>
             /\ pc' = "nb_raised"
    /\ inflight' = inflight \ {"goto"}
    /\ UNCHANGED <<notebook, test_idx, state, page_title,
                   test_results, decide_texts, anchor>>

\* await ai_agent.evaluate(json.dumps(task_configuration))
EvaluateStart ==
    /\ pc = "evaluate"
    /\ Log(<<Ev("start", "evaluate", task_configuration)>>)
    /\ inflight' = inflight \cup {"evaluate"}
    /\ pc' = await_pc("await_evaluate", step_after("evaluate"))
    /\ UNCHANGED <<notebook, test_idx, state, page_title, error,
                   test_results, decide_texts, anchor>>

EvaluateReturn ==
    /\ pc = "await_evaluate"
    /\ \E ok \in BOOLEAN :
        IF ok
        THEN /\ Log(<<Ev("return", "evaluate", task_configuration)>>
                    \o session_teardown)
             /\ anchor' = [anchor EXCEPT !.result = "result"]
             /\ pc' = step_after("evaluate")
             /\ UNCHANGED error
        ELSE /\ Log(<<Ev("raise", "evaluate", task_configuration)>>
                    \o session_teardown)
             /\ error' = <<"evaluate failed">>
             /\ pc' = "nb_raised"
             /\ UNCHANGED anchor
    /\ inflight' = inflight \ {"evaluate"}
    /\ UNCHANGED <<notebook, test_idx, state, page_title,
                   test_results, decide_texts>>

-----------------------------------------------------------------------------
(* Specifications *)

Init ==
    /\ notebook \in {"langsmith", "anchor"}
    /\ pc = IF notebook = "langsmith" THEN "loop" ELSE "cell1"
    /\ test_idx = 1
    /\ state = NoState
    /\ events = <<>>
    /\ inflight = {}
    /\ page_title = <<>>
    /\ error = <<>>
    /\ test_results = <<>>
    /\ decide_texts = <<>>
    /\ anchor = NoAnchor

Next ==
    \/ RunTest
    \/ DecideCall
    \/ DecideReturn(DecisionTexts)
    \/ DecideRaise
    \/ SearchSkip
    \/ SearchInvoke
    \/ SearchGetReturn
    \/ SummaryGetReturn
    \/ RespondCall
    \/ RespondReturn
    \/ RespondRaise
    \/ ReturnSuccess
    \/ ReturnFailure
    \/ Finish
    \/ CreateSession
    \/ PostReturn
    \/ ConnectStart
    \/ ConnectReturn
    \/ Locate
    \/ GetPage
    \/ NewPageReturn
    \/ GotoStart
    \/ GotoReturn
    \/ EvaluateStart
    \/ EvaluateReturn

Spec == Init /\ [][Next]_vars

\* every blocking call of the program comes back: requests.get carries
\* timeout=10 and llm.invoke returns or raises, so a step that can be taken
\* is eventually taken
SpecFair == Spec /\ WF_vars(Next)

\* the decide step alone, on every LLM answer of at most MaxOut tokens
InitDecide == Init /\ notebook = "langsmith"

NextDecide ==
    \/ RunTest
    \/ DecideCall
    \/ DecideReturn(AllTexts)

SpecDecide == InitDecide /\ [][NextDecide]_vars

-----------------------------------------------------------------------------
(* Vocabulary of the properties *)

IsPrefix(s, t) == Len(s) <= Len(t) /\ SubSeq(t, 1, Len(s)) = s

BeginsWith(s, p) == IsPrefix(p, s)

\* the nodes the current workflow invocation has executed, in order
NodeTrace == [i \in 1..Count("node") |-> EventsOf("node")[i].op]

OpsOf(kind, op) == SelectSeq(events, LAMBDA e : e.kind = kind /\ e.op = op)

\* the answer to a GET made the tool raise inside its try block: the request
\* raised, the body was not JSON, or the top hit had no 'title'
RaisesInTool(e) ==
    /\ e.kind = "http_return"
    /\ \/ e.arg.raised
       \/ /\ e.arg.status = 200
          /\ ~e.arg.json_ok
       \/ /\ e.op = "search"
          /\ e.arg.status = 200
          /\ e.arg.json_ok
          /\ e.arg.results # <<>>
          /\ ~e.arg.results[1].has_title

ToolRaised == \E i \in 1..Len(events) : RaisesInTool(events[i])

\* the request failed: it raised or came back with a status other than 200
RequestFailed(e) ==
    /\ e.kind = "http_return"
    /\ (e.arg.raised \/ e.arg.status # 200)

\* the search GET came back 200 with JSON whose first hit has a title
SearchFoundTitle ==
    \E i \in 1..Len(events) :
        /\ events[i].kind = "http_return"
        /\ events[i].op = "search"
        /\ ~events[i].arg.raised
        /\ events[i].arg.status = 200
        /\ events[i].arg.json_ok
        /\ events[i].arg.results # <<>>
        /\ events[i].arg.results[1].has_title

-----------------------------------------------------------------------------
(* C1: every workflow invocation that completes without an exception has  *)
(* executed decide, search, respond exactly once each, in that order, when *)
(* it reaches END, whatever needs_search is; and at no moment of any run   *)
(* has a node been skipped, repeated or reordered.                         *)

C1_NodesOnceInOrder ==
    notebook = "langsmith" =>
        /\ IsPrefix(NodeTrace, <<"decide", "search", "respond">>)
        /\ pc = "END" => NodeTrace = <<"decide", "search", "respond">>

C1_Witness ==
    /\ pc = "END"
    /\ ~state.needs_search
    /\ NodeTrace = <<"decide", "search", "respond">>

-----------------------------------------------------------------------------
(* C2, as claimed: every completed run has made exactly two LLM calls and  *)
(* exactly one HTTP GET.                                                   *)

C2_TwoLlmCallsOneGet ==
    pc = "END" => Count("llm_call") = 2 /\ Count("http_get") = 1

(* C2, amended: every completed run has made exactly two LLM calls; it has *)
(* made no HTTP GET when needs_search is false, and otherwise the search   *)
(* GET plus, exactly when that came back 200 with a first hit that has a   *)
(* title, the summary GET -- so zero, one or two GETs.                     *)

C2_TwoLlmCallsUpToTwoGets ==
    pc = "END" =>
        /\ Count("llm_call") = 2
        /\ Count("http_get") =
              IF ~state.needs_search THEN 0
              ELSE IF SearchFoundTitle THEN 2
              ELSE 1

C2_Witness ==
    /\ pc = "END"
    /\ Count("llm_call") = 2
    /\ Count("http_get") = 2

-----------------------------------------------------------------------------
(* C3: when anything raises while the search tool runs (the request        *)
(* raises, the body is not JSON, a key is missing), the tool returns a     *)
(* string beginning with "Search error: " that becomes search_result; the  *)
(* exception does not leave the tool, so the run goes on to respond, the   *)
(* only thing that can still raise is respond's own LLM call, and a run    *)
(* that reaches END has the respond LLM's answer as final_answer.          *)

C3_SearchFailureBecomesString ==
    (notebook = "langsmith" /\ ToolRaised) =>
        /\ Count("tool_return") = 1
        /\ BeginsWith(EventsOf("tool_return")[1].arg, <<"Search error", ": ">>)
        /\ state.search_result = EventsOf("tool_return")[1].arg
        /\ pc \in {"respond", "respond_llm", "END", "raised", "loop", "finished"}
        /\ pc = "raised" => OpsOf("llm_raise", "respond") # <<>>
        /\ pc = "END" =>
              /\ OpsOf("node", "respond") # <<>>
              /\ OpsOf("llm_return", "respond") # <<>>
              /\ state.final_answer = OpsOf("llm_return", "respond")[1].arg

C3_Witness ==
    /\ pc = "END"
    /\ ToolRaised
    /\ state.search_result = <<"Search error", ": ", "'title'">>
    /\ state.final_answer = <<"Paris.">>

-----------------------------------------------------------------------------
(* C4: after the decide step, needs_search is true exactly when the LLM    *)
(* answer is: any whitespace, then SEARCH, then only blanks up to the      *)
(* first newline or the end of the answer -- that is, when the first line  *)
(* of the trimmed answer, itself trimmed, is exactly SEARCH.  Every other  *)
(* answer (empty, "search", "SEARCH.", prose) is accepted and gives false. *)

FirstLineIsSEARCH(c) ==
    \E i \in 1..Len(c) :
        /\ \A k \in 1..(i - 1) : c[k] \in {" ", "\n"}
        /\ c[i] = "SEARCH"
        /\ \E j \in (i + 1)..(Len(c) + 1) :
              /\ \A k \in (i + 1)..(j - 1) : c[k] = " "
              /\ (j = Len(c) + 1 \/ c[j] = "\n")

C4_NeedsSearchIffFirstLineSEARCH ==
    OpsOf("llm_return", "decide") # <<>> =>
        /\ pc = "raised" => OpsOf("llm_raise", "respond") # <<>>
        /\ state.needs_search = FirstLineIsSEARCH(OpsOf("llm_return", "decide")[1].arg)

C4_Witness ==
    /\ pc = "search"
    /\ state.needs_search
    /\ OpsOf("llm_return", "decide")[1].arg = <<"\n", "SEARCH", " ">>

-----------------------------------------------------------------------------
(* C5: within one run the search GET and the summary GET are each issued   *)
(* at most once, and once a request has failed (it raised, or came back    *)
(* with a status other than 200) no further HTTP request is issued.        *)

C5_NoRetry ==
    notebook = "langsmith" =>
        /\ Len(OpsOf("http_get", "search")) <= 1
        /\ Len(OpsOf("http_get", "summary")) <= 1
        /\ \A i \in 1..Len(events) : \A j \in (i + 1)..Len(events) :
              RequestFailed(events[i]) => events[j].kind # "http_get"

C5_Witness ==
    /\ pc = "END"
    /\ \E i \in 1..Len(events) :
          /\ RequestFailed(events[i])
          /\ events[i].op = "search"
          /\ events[i].arg.status = 503

-----------------------------------------------------------------------------
(* C6: once the search node has run with needs_search false, it has        *)
(* invoked no tool and issued no HTTP request and search_result is exactly *)
(* "No search performed"; and the tool has been invoked (once) exactly     *)
(* when needs_search is true.                                              *)

SearchNodeRan == OpsOf("node", "search") # <<>>

C6_SearchOnlyWhenNeeded ==
    notebook = "langsmith" =>
        /\ SearchNodeRan =>
              Count("tool_call") = (IF state.needs_search THEN 1 ELSE 0)
        /\ (SearchNodeRan /\ ~state.needs_search) =>
              /\ Count("http_get") = 0
              /\ state.search_result = <<"No search performed">>
        /\ ~SearchNodeRan => Count("tool_call") = 0 /\ Count("http_get") = 0
        /\ (pc = "END" /\ ~state.needs_search) => SearchNodeRan

C6_Witness ==
    /\ pc = "respond"
    /\ SearchNodeRan
    /\ ~state.needs_search
    /\ state.search_result = <<"No search performed">>
    /\ Count("tool_call") = 0

-----------------------------------------------------------------------------
(* C7: the respond step makes one LLM call and stores the answer as        *)
(* final_answer; its prompt carries search_result after "Search Results: " *)
(* exactly when needs_search is true and search_result does not contain    *)
(* "Search error", and otherwise consists of the fixed knowledge-only      *)
(* wording around the user question alone.                                 *)

RespondPrompt == OpsOf("llm_call", "respond")[1].arg

EmbedsSearchResults(prompt) ==
    \E i \in 1..Len(prompt) :
        /\ prompt[i] = "\n\nSearch Results: "
        /\ SubSeq(prompt, i + 1, i + Len(state.search_result)) = state.search_result
        /\ SubSeq(prompt, i - Len(state.user_question), i - 1) = state.user_question

OnlyQuestion(prompt) ==
    /\ Len(prompt) = Len(state.user_question) + 2
    /\ SubSeq(prompt, 2, Len(prompt) - 1) = state.user_question
    /\ prompt[1] = "Answer this question using your existing knowledge:"
    /\ ~Contains(prompt, "\n\nSearch Results: ")

C7_RespondPrompt ==
    notebook = "langsmith" =>
        /\ Len(OpsOf("llm_call", "respond")) <= 1
        /\ OpsOf("node", "respond") # <<>> =>
              /\ Len(OpsOf("llm_call", "respond")) = 1
              /\ EmbedsSearchResults(RespondPrompt) <=>
                    (state.needs_search
                        /\ ~Contains(state.search_result, "Search error"))
              /\ ~EmbedsSearchResults(RespondPrompt) => OnlyQuestion(RespondPrompt)
        /\ OpsOf("llm_return", "respond") # <<>> =>
              state.final_answer = OpsOf("llm_return", "respond")[1].arg

C7_Witness ==
    /\ pc = "END"
    /\ state.needs_search
    /\ Contains(state.search_result, "Search error")
    /\ OnlyQuestion(RespondPrompt)
    /\ state.final_answer = <<"Paris.">>

-----------------------------------------------------------------------------
(* C8: in the anchor notebook the local code issues at most one            *)
(* session-creation POST and at most one task, and a run that gets to the  *)
(* end of the form-completion cell has issued exactly one of each; what it *)
(* does happens in the fixed order create session, connect over CDP,       *)
(* locate the AI agent, navigate to the resume URL, evaluate the task, and *)
(* the task is issued only after the navigation has returned.              *)

IsMilestone(e) ==
    \/ e.kind = "http_post"
    \/ e.kind = "locate"
    \/ e.kind = "start" /\ e.op \in {"connect", "goto", "evaluate"}

Milestones ==
    LET ms == SelectSeq(events, IsMilestone)
    IN  [i \in 1..Len(ms) |-> ms[i].op]

C8_OnePostOneTaskInOrder ==
    notebook = "anchor" =>
        /\ Count("http_post") <= 1
        /\ Len(OpsOf("start", "evaluate")) <= 1
        /\ pc = "nb_done" =>
              /\ Count("http_post") = 1
              /\ Len(OpsOf("start", "evaluate")) = 1
              /\ OpsOf("start", "evaluate")[1].arg = task_configuration
        /\ IsPrefix(Milestones,
                    <<"sessions", "connect", "ai_agent", "goto", "evaluate">>)
        /\ \A j \in 1..Len(events) :
              (events[j].kind = "start" /\ events[j].op = "evaluate") =>
                  \E i \in 1..(j - 1) :
                      /\ events[i].kind = "return"
                      /\ events[i].op = "goto"
                      /\ events[i].arg = resume_url

C8_Witness ==
    /\ pc = "nb_done"
    /\ Milestones = <<"sessions", "connect", "ai_agent", "goto", "evaluate">>
    /\ anchor.result = "result"

-----------------------------------------------------------------------------
(* C9: execution is strictly sequential in both notebooks: at most one     *)
(* blocking or awaited operation is in flight at any time, and every       *)
(* operation starts only after the one started before it has returned or   *)
(* raised.                                                                 *)

IsStart(e) == e.kind \in {"llm_call", "http_get", "http_post", "start"}

IsEnd(e) == e.kind \in {"llm_return", "llm_raise", "http_return", "return", "raise"}

Calls == SelectSeq(events, LAMBDA e : IsStart(e) \/ IsEnd(e))

C9_StrictlySequential ==
    /\ Cardinality(inflight) <= 1
    /\ \A i \in 1..Len(Calls) :
          /\ (i % 2 = 1) => IsStart(Calls[i])
          /\ (i % 2 = 0) => IsEnd(Calls[i]) /\ Calls[i].op = Calls[i - 1].op
    /\ (inflight = {}) <=> (Len(Calls) % 2 = 0)

C9_Witness ==
    /\ notebook = "anchor"
    /\ pc = "await_evaluate"
    /\ inflight = {"evaluate"}
    /\ Len(Calls) = 9

-----------------------------------------------------------------------------
(* C10: the state record does not outlive one invocation.  Every run       *)
(* enters the workflow with a fresh record (the test's question, and       *)
(* needs_search false, search_result, final_answer, reasoning empty), and  *)
(* used_search and reasoning of a returned record are determined by what   *)
(* the decide LLM call answered in that run: two successful runs with the  *)
(* same answer return the same used_search and reasoning, whichever runs   *)
(* came before them.                                                       *)

C10_FreshStateEachRun ==
    notebook = "langsmith" =>
        /\ pc = "decide" =>
              state = [user_question |-> test_cases[test_idx].question,
                       needs_search |-> FALSE, search_result |-> <<>>,
                       final_answer |-> <<>>, reasoning |-> <<>>]
        /\ \A i \in 1..Len(test_results) : \A j \in 1..Len(test_results) :
              ( /\ test_results[i].success
                /\ test_results[j].success
                /\ decide_texts[i] = decide_texts[j] ) =>
                  /\ test_results[i].used_search = test_results[j].used_search
                  /\ test_results[i].reasoning = test_results[j].reasoning

C10_Witness ==
    /\ Len(test_results) = 3
    /\ \A i \in 1..3 : test_results[i].success
    /\ decide_texts[1] = decide_texts[3]
    /\ decide_texts[2] # decide_texts[1]
    /\ ~test_results[1].used_search
    /\ test_results[2].used_search
    /\ ~test_results[3].used_search

-----------------------------------------------------------------------------
(* C11: the anchor notebook never issues a request that ends, closes or    *)
(* deletes the session it created: at every moment, also after the task    *)
(* has returned or raised, the only request to the session API that has    *)
(* been sent is the creation POST.                                         *)

IsSessionRequest(e) ==
    /\ e.op = "sessions"
    /\ e.kind \in {"http_post", "http_delete", "http_put", "http_get"}

SessionRequests == SelectSeq(events, IsSessionRequest)

TaskEnded ==
    \E i \in 1..Len(events) :
        events[i].op = "evaluate" /\ events[i].kind \in {"return", "raise"}

C11_NoSessionTeardown ==
    notebook = "anchor" =>
        /\ \A i \in 1..Len(SessionRequests) :
              /\ i = 1
              /\ SessionRequests[i].kind = "http_post"
        /\ TaskEnded => Len(SessionRequests) = 1
        /\ \A i \in 1..Len(events) :
              events[i].kind \notin {"http_delete", "http_put"}

C11_Witness ==
    /\ notebook = "anchor"
    /\ pc = "nb_raised"
    /\ TaskEnded
    /\ anchor.session_id = "session-1"
    /\ Len(SessionRequests) = 1

-----------------------------------------------------------------------------
(* C12: run_test_with_observability never raises: every call appends one   *)
(* record and the loop goes on.  The record has success = TRUE exactly     *)
(* when the workflow invocation raised nothing, and then used_search and   *)
(* reasoning are those of the final state; otherwise it has success =      *)
(* FALSE and the text of the exception.  expected_search plays no part.    *)

LastResult == test_results[Len(test_results)]

RunRaised == Count("llm_raise") > 0

\* the call of run_test_with_observability for the previous test has returned
RunReturned == pc \in {"loop", "finished"} /\ test_results # <<>>

C12_SuccessIffNoException ==
    notebook = "langsmith" =>
        /\ test_idx = Len(test_results) + 1
        /\ pc \in {"END", "raised"} => test_idx <= Len(test_cases)
        /\ RunReturned =>
              /\ LastResult.success = ~RunRaised
              /\ ~RunRaised =>
                    /\ LastResult.used_search = state.needs_search
                    /\ LastResult.reasoning = state.reasoning
              /\ RunRaised =>
                    LastResult.error = EventsOf("llm_raise")[1].arg

C12_Witness ==
    /\ RunReturned
    /\ LastResult.success
    /\ LastResult.used_search # test_cases[test_idx - 1].expected_search

-----------------------------------------------------------------------------
(* C13: an LLM call that raises is not recovered from.  When the decide    *)
(* call raises, search and respond do not execute, no tool is invoked, no  *)
(* HTTP request is issued and final_answer stays empty; when the respond   *)
(* call raises, no answer is stored either.  In both cases the run ends    *)
(* as a failure.                                                           *)

DecideRaised == OpsOf("llm_raise", "decide") # <<>>

RespondRaised == OpsOf("llm_raise", "respond") # <<>>

C13_NoRecoveryFromLlmFailure ==
    notebook = "langsmith" =>
        /\ DecideRaised =>
              /\ NodeTrace = <<"decide">>
              /\ Count("tool_call") = 0
              /\ Count("http_get") = 0
        /\ (DecideRaised \/ RespondRaised) =>
              /\ state.final_answer = <<>>
              /\ OpsOf("llm_return", "respond") = <<>>
              /\ pc \in {"raised", "loop", "finished"}
              /\ RunReturned => ~LastResult.success

C13_Witness ==
    /\ DecideRaised
    /\ RunReturned
    /\ ~LastResult.success
    /\ LastResult.error = <<"APIConnectionError">>
    /\ state.final_answer = <<>>

-----------------------------------------------------------------------------
(* C14: whenever the search tool ran and did not obtain a summary (a       *)
(* request raised, the search answered with a status other than 200 or     *)
(* with an empty list, the body could not be used, or the summary request  *)
(* answered with a status other than 200), the respond prompt is the       *)
(* knowledge-only one and does not carry the failure message after         *)
(* "Search Results: ".                                                     *)

SearchReturns == OpsOf("http_return", "search")

SummaryReturns == OpsOf("http_return", "summary")

SearchGaveNoTitle ==
    /\ SearchReturns # <<>>
    /\ LET r == SearchReturns[1].arg
       IN  \/ r.raised
           \/ r.status # HTTP_OK
           \/ ~r.json_ok
           \/ r.results = <<>>
           \/ ~r.results[1].has_title

SummaryGaveNoExtract ==
    /\ SummaryReturns # <<>>
    /\ LET r == SummaryReturns[1].arg
       IN  r.raised \/ r.status # HTTP_OK \/ ~r.json_ok

NoSummaryObtained == SearchGaveNoTitle \/ SummaryGaveNoExtract

C14_FailedSearchKnowledgeOnly ==
    (/\ notebook = "langsmith"
     /\ OpsOf("llm_call", "respond") # <<>>
     /\ NoSummaryObtained)
        => /\ OnlyQuestion(RespondPrompt)
           /\ ~EmbedsSearchResults(RespondPrompt)

-----------------------------------------------------------------------------
(* C15: the decide step accepts every answer of the LLM, the empty one     *)
(* included.  The explanation it keeps is "No reasoning provided" exactly  *)
(* when the trimmed answer has no newline; otherwise it is what stands     *)
(* between the first newline of the trimmed answer and the next one (or    *)
(* the end), unchanged, even when that is blank.  The reasoning field is   *)
(* "Decision: ", the trimmed first line, ". Reasoning: ", the explanation. *)

DecideAnswered == OpsOf("llm_return", "decide") # <<>>

DecideOutput == OpsOf("llm_return", "decide")[1].arg

Min(S) == CHOOSE x \in S : \A y \in S : x <= y

Max(S) == CHOOSE x \in S : \A y \in S : x >= y

\* positions of c that survive trimming: from the first to the last token
\* that is not whitespace
Inked(c) == {i \in 1..Len(c) : c[i] \notin {" ", "\n"}}

TrimFrom(c) == IF Inked(c) = {} THEN 1 ELSE Min(Inked(c))

TrimTo(c) == IF Inked(c) = {} THEN 0 ELSE Max(Inked(c))

\* positions of the newlines inside the trimmed answer
InnerNewlines(c) == {i \in TrimFrom(c)..TrimTo(c) : c[i] = "\n"}

FirstLineEnd(c) == Min(InnerNewlines(c) \cup {TrimTo(c) + 1}) - 1

TrimmedFirstLine(c) ==
    IF Inked(c) = {} THEN <<>>
    ELSE SubSeq(c, TrimFrom(c),
                Max({i \in TrimFrom(c)..FirstLineEnd(c) : i \in Inked(c)}))

SecondLine(c) ==
    LET n1 == Min(InnerNewlines(c))
        n2 == Min({i \in InnerNewlines(c) : i > n1} \cup {TrimTo(c) + 1})
    IN  SubSeq(c, n1 + 1, n2 - 1)

ExpectedReasoning(c) ==
    IF InnerNewlines(c) = {} THEN <<"No reasoning provided">> ELSE SecondLine(c)

C15_DecideParsesAnyText ==
    DecideAnswered =>
        /\ pc = "raised" => OpsOf("llm_raise", "respond") # <<>>
        /\ state.reasoning =
              <<"Decision: ">> \o TrimmedFirstLine(DecideOutput)
                  \o <<". Reasoning: ">> \o ExpectedReasoning(DecideOutput)
        /\ state.reasoning[Len(state.reasoning)] = "No reasoning provided"
              <=> InnerNewlines(DecideOutput) = {}

C15_Witness ==
    /\ pc = "search"
    /\ DecideOutput = <<"SEARCH", "\n", "\n", "search">>
    /\ state.reasoning = <<"Decision: ", "SEARCH", ". Reasoning: ">>

\* the empty answer is accepted as well
C15_EmptyAnswerAccepted ==
    /\ pc = "search"
    /\ ~state.needs_search
    /\ DecideOutput = <<>>
    /\ state.reasoning = <<"Decision: ", ". Reasoning: ", "No reasoning provided">>

-----------------------------------------------------------------------------
(* C16: within a workflow invocation each node writes only its own fields. *)
(* user_question is never written, so it is the question of the test case  *)
(* throughout; needs_search and reasoning change only when the decide node *)
(* stores its result, search_result only in the search node, final_answer  *)
(* only when the respond node stores the answer; so the needs_search the   *)
(* respond node reads is the one the decide node derived from the answer.  *)

InInvocation == notebook = "langsmith" /\ pc \notin {"loop", "finished"}

SearchPositions == {"search", "search_get", "summary_get"}

RespondPositions == {"respond", "respond_llm", "END"}

OwnFieldsOnly ==
    InInvocation =>
        /\ state'.user_question = state.user_question
        /\ state'.needs_search # state.needs_search => pc = "decide_llm"
        /\ state'.reasoning # state.reasoning => pc = "decide_llm"
        /\ state'.search_result # state.search_result => pc \in SearchPositions
        /\ state'.final_answer # state.final_answer => pc = "respond_llm"

QuestionAndDecisionKept ==
    InInvocation =>
        /\ state.user_question = test_cases[test_idx].question
        /\ pc \in {"decide", "decide_llm"} => state.search_result = <<>>
        /\ pc \notin {"END"} => state.final_answer = <<>>
        /\ pc \in RespondPositions =>
              state.needs_search = FirstLineIsSEARCH(DecideOutput)

C16_StepsWriteOwnFields == []QuestionAndDecisionKept /\ [][OwnFieldsOnly]_vars

C16_Witness ==
    /\ pc = "END"
    /\ test_idx = 2
    /\ state.user_question = test_cases[2].question
    /\ state.needs_search
    /\ BeginsWith(state.search_result, <<"Found information about '">>)
    /\ state.final_answer = <<"Paris.">>
    /\ state.reasoning = <<"Decision: ", "SEARCH", ". Reasoning: ", "needs current data">>

-----------------------------------------------------------------------------
(* C17: the summary GET is issued only right after the search GET came     *)
(* back with status 200 and a non-empty result list, and it asks for the   *)
(* page named by the title of the first result (blanks as underscores).    *)
(* In every other case the tool returns after exactly one GET.             *)

GotResults(r) ==
    /\ ~r.raised
    /\ r.status = 200
    /\ r.json_ok
    /\ r.results # <<>>

Underscored(title) ==
    [i \in 1..Len(title) |-> IF title[i] = " " THEN "_" ELSE title[i]]

ToolReturned == Count("tool_return") > 0

C17_SummaryOnlyAfterResults ==
    notebook = "langsmith" =>
        /\ \A i \in 1..Len(events) :
              (events[i].kind = "http_get" /\ events[i].op = "summary") =>
                  /\ i > 1
                  /\ events[i - 1].kind = "http_return"
                  /\ events[i - 1].op = "search"
                  /\ GotResults(events[i - 1].arg)
                  /\ events[i].arg =
                        <<"https://en.wikipedia.org/api/rest_v1/page/summary/">>
                            \o Underscored(events[i - 1].arg.results[1].title)
        /\ (ToolReturned /\ ~GotResults(SearchReturns[1].arg)) =>
              /\ Count("http_get") = 1
              /\ OpsOf("http_get", "search") # <<>>
        /\ (ToolReturned /\ Count("http_get") > 1) =>
              /\ Count("http_get") = 2
              /\ GotResults(SearchReturns[1].arg)

C17_Witness ==
    /\ pc = "summary_get"
    /\ Len(SearchReturns[1].arg.results) = 2
    /\ OpsOf("http_get", "summary")[1].arg =
          <<"https://en.wikipedia.org/api/rest_v1/page/summary/",
            "United", "_", "States">>

-----------------------------------------------------------------------------
(* C18: wikipedia_search always returns a string and never raises.  The    *)
(* string is one of five, fixed by the answers to its requests: the        *)
(* summary text, "Found '<title>' but couldn't retrieve summary", "No      *)
(* Wikipedia articles found for '<query>'", "Wikipedia search failed with  *)
(* status <n>", or "Search error: <exception>".  Once the search node has  *)
(* run, search_result is not empty.                                        *)

ToolResult == OpsOf("tool_return", "wikipedia_search")[1].arg

ToolQuery == OpsOf("tool_call", "wikipedia_search")[1].arg

SearchErrorText(e) == <<"Search error", ": ">> \o e

\* the string the answer m to the summary GET for title t must give
SummaryOutcome(t, m) ==
    IF m.raised THEN ToolResult = SearchErrorText(m.error)
    ELSE IF m.status # 200
    THEN ToolResult = <<"Found '">> \o t \o <<"' but couldn't retrieve summary">>
    ELSE IF ~m.json_ok THEN BeginsWith(ToolResult, <<"Search error", ": ">>)
    ELSE /\ BeginsWith(ToolResult, <<"Found information about '">> \o t \o <<"': ">>)
         /\ ToolResult[Len(ToolResult)] = "..."
         /\ Len(ToolResult) > Len(t) + 3

\* the string the answer s to the search GET must give
SearchOutcome(s) ==
    IF s.raised THEN ToolResult = SearchErrorText(s.error)
    ELSE IF s.status # 200
    THEN ToolResult = <<"Wikipedia search failed with status ", ToString(s.status)>>
    ELSE IF ~s.json_ok THEN BeginsWith(ToolResult, <<"Search error", ": ">>)
    ELSE IF s.results = <<>>
    THEN ToolResult = <<"No Wikipedia articles found for '">> \o ToolQuery \o <<"'">>
    ELSE IF ~s.results[1].has_title
    THEN BeginsWith(ToolResult, <<"Search error", ": ">>)
    ELSE /\ SummaryReturns # <<>>
         /\ SummaryOutcome(s.results[1].title, SummaryReturns[1].arg)

C18_SearchToolTotal ==
    notebook = "langsmith" =>
        /\ (Count("tool_call") > 0 /\ pc = "raised") => RespondRaised
        /\ (Count("tool_call") > 0 /\ pc \notin SearchPositions) => ToolReturned
        /\ ToolReturned =>
              /\ Count("tool_return") = 1
              /\ ToolResult # <<>>
              /\ SearchOutcome(SearchReturns[1].arg)
              /\ state.search_result = ToolResult
        /\ (SearchNodeRan /\ pc \notin SearchPositions) =>
              state.search_result # <<>>

C18_Witness ==
    /\ pc = "respond"
    /\ ToolReturned
    /\ ToolResult = <<"Found '", "Paris", "' but couldn't retrieve summary">>
    /\ state.search_result = ToolResult

-----------------------------------------------------------------------------
(* C19: every workflow invocation terminates (it reaches END or leaves     *)
(* with an exception), and it executes at most three nodes, makes at most  *)
(* two LLM calls and issues at most two HTTP requests.                     *)

Terminated == pc \in {"END", "raised"}

Running == InInvocation /\ ~Terminated

\* how far a position is from the end of the graph
Rank(p) ==
    CASE p = "decide" -> 7
      [] p = "decide_llm" -> 6
      [] p = "search" -> 5
      [] p = "search_get" -> 4
      [] p = "summary_get" -> 3
      [] p = "respond" -> 2
      [] p = "respond_llm" -> 1
      [] OTHER -> 0

BoundedWork ==
    notebook = "langsmith" =>
        /\ Count("node") <= 3
        /\ Count("llm_call") <= 2
        /\ Count("http_get") + Count("http_post") <= 2
        /\ Running => ENABLED Next

Progress == Running => Rank(pc') < Rank(pc)

C19_InvocationTerminates ==
    /\ []BoundedWork
    /\ [][Progress]_vars
    /\ Running ~> Terminated

C19_Witness ==
    /\ pc = "END"
    /\ Count("node") = 3
    /\ Count("llm_call") = 2
    /\ Count("http_get") = 2

-----------------------------------------------------------------------------
(* C20: the test loop appends one record per entry of test_cases, in the   *)
(* order of the list, each carrying that entry's question and type,        *)
(* whether the run succeeded or failed; a failed run does not keep the     *)
(* later tests from running, so the loop always reaches its end with as    *)
(* many records as test cases.                                             *)

RecordOf(i) == test_results[i]

OneRecordPerTest ==
    notebook = "langsmith" =>
        /\ Len(test_results) = test_idx - 1
        /\ Len(test_results) <= Len(test_cases)
        /\ \A i \in 1..Len(test_results) :
              /\ RecordOf(i).question = test_cases[i].question
              /\ RecordOf(i).type = test_cases[i].type
        /\ pc = "finished" => Len(test_results) = Len(test_cases)

RecordsOnlyAppended ==
    /\ IsPrefix(test_results, test_results')
    /\ Len(test_results') <= Len(test_results) + 1

C20_OneRecordPerTestCase ==
    /\ []OneRecordPerTest
    /\ [][RecordsOnlyAppended]_vars
    /\ (notebook = "langsmith") ~> (pc = "finished")

C20_Witness ==
    /\ pc = "finished"
    /\ Len(test_results) = 3
    /\ ~RecordOf(1).success
    /\ RecordOf(2).success
    /\ ~RecordOf(3).success
    /\ RecordOf(3).type = "factual_lookup"

-----------------------------------------------------------------------------
(* C21: when the first browser context has no service worker with the url  *)
(* of the AI agent, the form-completion cell raises "AI agent not found in *)
(* browser context" and neither opens a page, navigates nor evaluates the  *)
(* task; a navigation or a task evaluation is only ever started after the  *)
(* agent was found.                                                        *)

Connected == OpsOf("return", "connect") # <<>>

AgentAbsent ==
    /\ Connected
    /\ anchor.contexts > 0
    /\ ai_agent_url \notin anchor.service_workers

PageWork ==
    {i \in 1..Len(events) : events[i].op \in {"new_page", "goto", "evaluate"}}

C21_NoAgentNoTask ==
    notebook = "anchor" =>
        /\ AgentAbsent =>
              /\ pc \in {"locate", "nb_raised"}
              /\ pc = "nb_raised" =>
                    error = <<"AI agent not found in browser context">>
              /\ PageWork = {}
              /\ ~anchor.ai_agent /\ ~anchor.page /\ anchor.result = ""
        /\ PageWork # {} =>
              /\ ai_agent_url \in anchor.service_workers
              /\ anchor.ai_agent
              /\ \E j \in 1..Len(events) :
                    /\ events[j].kind = "locate"
                    /\ events[j].arg = <<ai_agent_url>>
                    /\ \A i \in PageWork : j < i

C21_Witness ==
    /\ notebook = "anchor"
    /\ pc = "nb_raised"
    /\ Connected
    /\ anchor.service_workers = {other_worker_url}
    /\ error = <<"AI agent not found in browser context">>
    /\ PageWork = {}

====
